---- MODULE Spec2Model ----
(***************************************************************************)
(* ioping: the sampling loop and the two-level statistics of main()        *)
(* (src/ioping.c, lines 348-438) together with the SIGINT handler          *)
(* sig_exit (lines 276-280).                                               *)
(*                                                                         *)
(* The main thread is a sequence of steps (pc); the signal handler may run *)
(* between any two of them.  The clock is the value now() returns; it      *)
(* advances while the process is blocked in pread() or usleep() and during *)
(* the set-up between the two now() calls of lines 349 and 358.            *)
(*                                                                         *)
(* Numbers.  Latencies and min/max are long long and are kept exact.  The  *)
(* sums are C doubles: every addition rounds to the nearest representable  *)
(* value, ties to even.  A double has a 53-bit significand and TLC's       *)
(* integers have 32 bits, so the model keeps the rounding rule and scales  *)
(* the significand to MantBits bits, with the latencies scaled alike: one  *)
(* latency squared is exact (below 2^53 for any read shorter than 94 s),   *)
(* the sum of the latencies of a run is exact (2^53 us are 285 years) and  *)
(* the sum of the squares may pass the exact range.  The clock is taken to *)
(* be monotonic, so a latency is never negative.                           *)
(***************************************************************************)
EXTENDS Integers, Sequences, FiniteSets

\* ---------------------------------------------------------------- bounds
MaxReq == 4          \* requests issued in one run
MaxLat == 2          \* time one pread() takes
MaxPeriod == 2       \* -p
MaxDeadline == 2     \* -w
MantBits == 3        \* significand of the scaled double

\* ------------------------------------------------------ program constants
\* LLONG_MAX and LLONG_MIN of <limits.h>, scaled to the width of the
\* model's integers; they are only compared and printed.
LLONG_MAX == 2147483647
LLONG_MIN == -2147483647
EINTR == 4
\* ssize_t size = 512: what a successful pread() returns.
Size == 512

\* ------------------------------------------------------------ arithmetic
RECURSIVE Pow2(_)
Pow2(n) == IF n = 0 THEN 1 ELSE 2 * Pow2(n - 1)

\* The spacing of the doubles around x (x >= 0).
RECURSIVE Ulp(_)
Ulp(x) == IF x < Pow2(MantBits) THEN 1 ELSE 2 * Ulp(x \div 2)

\* Conversion of the integer x >= 0 to double: round to nearest, ties to even.
ToDouble(x) ==
    LET u == Ulp(x)
        q == x \div u
        r == x % u
    IN  IF 2 * r < u THEN q * u
        ELSE IF 2 * r > u THEN (q + 1) * u
        ELSE IF q % 2 = 0 THEN q * u
        ELSE (q + 1) * u

\* a + b on doubles holding non-negative integers.
DAdd(a, b) == ToDouble(a + b)

\* ----------------------------------------------------------------- state
VARIABLES
    pc,          \* position of main()
    clock,       \* what now() returns
    count, period, deadline, interval, cached, quiet,   \* globals set by the options
    request, exiting,                                   \* globals
    this_time, ret_size, errno,                         \* locals of main and errno
    part_min, part_max, part_sum, part_sum2,            \* the window
    time_min, time_max, time_sum, time_sum2,            \* the run
    time_total, time_avg,
    status,      \* exit status, -1 while running
    stdout,      \* the final summaries printed (lines 429-436); the lines
                 \* printed per request and per window are not kept
    \* history variables, read by no action
    nrec,        \* samples recorded
    seen,        \* the latencies recorded
    sumAll, sum2All,      \* their exact sum and sum of squares
    winCount, winSeen, winSum, winSum2,   \* the same since the last flush
    flat,        \* a single aggregate fed every sample, never flushed
    flushedAt,   \* the request indices at which a window was flushed
    nfinal,      \* times the final fold (lines 417-427) ran
    sigInRead,   \* the signal arrived while pread() was in flight
    afterSig     \* requests started since the flag was set

config == <<count, period, deadline, interval, cached, quiet>>
prog   == <<request, exiting, this_time, ret_size, errno>>
window == <<part_min, part_max, part_sum, part_sum2>>
run    == <<time_min, time_max, time_sum, time_sum2, time_total, time_avg>>
outs   == <<status, stdout>>
winHist == <<winCount, winSeen, winSum, winSum2>>
allHist == <<nrec, seen, sumAll, sum2All, flat>>
evHist == <<flushedAt, nfinal, sigInRead, afterSig>>
vars == <<pc, clock, config, prog, window, run, outs, winHist, allHist, evHist>>

NoAvg == [nan |-> FALSE, num |-> 0, den |-> 1]

\* The state when main() reaches line 348: the options are parsed, the target
\* is open; main's locals are not yet assigned (no step reads them before
\* lines 353-358 assign them).
Init ==
    /\ pc = "start"
    /\ clock = 0
    /\ count \in 0..MaxReq
    /\ period \in 0..MaxPeriod
    /\ deadline \in 0..MaxDeadline
    /\ interval \in 0..1          \* -i 0, or one tick of the clock
    /\ cached \in BOOLEAN
    /\ quiet \in BOOLEAN
    /\ request = 0
    /\ exiting = FALSE
    /\ this_time = 0 /\ ret_size = 0 /\ errno = 0
    /\ part_min = 0 /\ part_max = 0 /\ part_sum = 0 /\ part_sum2 = 0
    /\ time_min = 0 /\ time_max = 0 /\ time_sum = 0 /\ time_sum2 = 0
    /\ time_total = 0 /\ time_avg = NoAvg
    /\ status = -1
    /\ stdout = <<>>
    /\ nrec = 0 /\ seen = {} /\ sumAll = 0 /\ sum2All = 0
    /\ winCount = 0 /\ winSeen = {} /\ winSum = 0 /\ winSum2 = 0
    /\ flat = [min |-> LLONG_MAX, max |-> LLONG_MIN, sum |-> 0, sum2 |-> 0]
    /\ flushedAt = {}
    /\ nfinal = 0
    /\ sigInRead = FALSE
    /\ afterSig = 0

\* ------------------------------------------------------------ sig_exit
\* Mutant: the handler toggles the flag.
SigExit_Toggles ==
    /\ pc \notin {"start", "done", "failed"}
    /\ exiting' = ~exiting
    /\ sigInRead' = (pc = "inread")
    /\ UNCHANGED <<pc, clock, config, request, this_time, ret_size, errno,
                   window, run, outs, winHist, allHist,
                   flushedAt, nfinal, afterSig>>

\* SIGINT is delivered while main() runs, after set_signal (line 351).
SigExit ==
    /\ pc \notin {"start", "done", "failed"}
    /\ exiting = FALSE
    /\ exiting' = TRUE
    /\ sigInRead' = (pc = "inread")
    /\ UNCHANGED <<pc, clock, config, request, this_time, ret_size, errno,
                   window, run, outs, winHist, allHist,
                   flushedAt, nfinal, afterSig>>

\* Mutant: the error path exits with status 0.
ErrExit_StatusZero ==
    /\ pc' = "failed"
    /\ status' = 0

\* err(1, ...): the message is printed and the process exits with status 1.
ErrExit ==
    /\ pc' = "failed"
    /\ status' = 1

\* --------------------------------------------------------------- main()
\* Lines 348-358: the deadline becomes absolute, the handler is installed,
\* the statistics get their identities.  The set-up between the now() of
\* line 349 and that of line 358 takes d; with no deadline the clock is read
\* only for differences and d is taken as 0.
Start ==
    /\ pc = "start"
    /\ deadline' = IF deadline # 0 THEN deadline + clock ELSE deadline
    /\ \E d \in (IF deadline # 0 THEN 0..1 ELSE {0}) : clock' = clock + d
    /\ request' = 0
    /\ part_min' = LLONG_MAX /\ time_min' = LLONG_MAX
    /\ part_max' = LLONG_MIN /\ time_max' = LLONG_MIN
    /\ part_sum' = 0 /\ time_sum' = 0
    /\ part_sum2' = 0 /\ time_sum2' = 0
    /\ time_total' = clock'
    /\ pc' = "while"
    /\ UNCHANGED <<count, period, interval, cached, quiet, exiting, this_time,
                   ret_size, errno, time_avg, outs, winHist, allHist, evHist>>

\* Mutant: while (1).
LoopCond_Always == TRUE

\* Line 360.
LoopCond == ~exiting

\* Mutant: request > count.
CountReached_Late == count # 0 /\ request > count

\* Line 361.
CountReached == count # 0 /\ request >= count

\* Mutant: now() > deadline.
DeadlineReached_Strict == deadline # 0 /\ clock > deadline

\* Line 364.
DeadlineReached == deadline # 0 /\ clock >= deadline

WhileCheck ==
    /\ pc = "while"
    /\ pc' = IF LoopCond THEN "limits" ELSE "final"
    /\ UNCHANGED <<clock, config, prog, window, run, outs, winHist, allHist, evHist>>

\* Lines 361-367.
Limits ==
    /\ pc = "limits"
    /\ IF CountReached \/ DeadlineReached
       THEN /\ pc' = "final"
            /\ UNCHANGED <<request, afterSig>>
       ELSE /\ request < MaxReq
            /\ request' = request + 1
            /\ afterSig' = IF exiting THEN afterSig + 1 ELSE afterSig
            /\ pc' = IF cached THEN "read" ELSE "fadvise"
    /\ UNCHANGED <<clock, config, exiting, this_time, ret_size, errno, window, run,
                   outs, winHist, allHist,
                   flushedAt, nfinal, sigInRead>>

\* Lines 369-374.
Fadvise ==
    /\ pc = "fadvise"
    /\ \E ret \in {0, 1} :
         IF ret # 0
         THEN ErrExit
         ELSE pc' = "read" /\ UNCHANGED status
    /\ UNCHANGED <<clock, config, prog, window, run, stdout, winHist, allHist, evHist>>

\* Line 376.
ReadStart ==
    /\ pc = "read"
    /\ this_time' = clock
    /\ pc' = "inread"
    /\ UNCHANGED <<clock, config, request, exiting, ret_size, errno, window, run,
                   outs, winHist, allHist, evHist>>

\* Mutant: every negative return is fatal.
ReadFailed_AnyError(ret, err) == ret < 0

\* Line 378.
ReadFailed(ret, err) == ret < 0 /\ err # EINTR

\* Lines 377-380: pread() returns after lat; it read the block (errno is left
\* as it was), or failed with EINTR or with another error.
ReadReturn ==
    /\ pc = "inread"
    /\ \E lat \in 0..MaxLat, res \in {<<Size, errno>>, <<-1, EINTR>>, <<-1, EINTR + 1>>} :
         /\ clock' = clock + lat
         /\ ret_size' = res[1]
         /\ errno' = res[2]
         /\ IF ReadFailed(res[1], res[2])
            THEN /\ ErrExit
                 /\ UNCHANGED this_time
            ELSE /\ this_time' = clock' - this_time
                 /\ pc' = "record"
                 /\ UNCHANGED status
    /\ UNCHANGED <<config, request, exiting, window, run, stdout, winHist, allHist,
                   evHist>>

\* Mutant: the comparison is reversed.
MinOf_Reversed(a, b) == IF a > b THEN a ELSE b

\* Lines 384-385 and 404-405, 421-422.
MinOf(a, b) == IF a < b THEN a ELSE b

\* Lines 386-387 and 406-407, 423-424.
MaxOf(a, b) == IF a > b THEN a ELSE b

\* Lines 382-387 on one aggregate.
RecordInto(agg, t) ==
    [sum  |-> DAdd(agg.sum, ToDouble(t)),
     sum2 |-> DAdd(agg.sum2, ToDouble(t * t)),
     min  |-> MinOf(t, agg.min),
     max  |-> MaxOf(t, agg.max)]

\* Lines 382-392.
Record ==
    /\ pc = "record"
    /\ LET w == RecordInto([sum |-> part_sum, sum2 |-> part_sum2,
                            min |-> part_min, max |-> part_max], this_time)
       IN  /\ part_sum' = w.sum
           /\ part_sum2' = w.sum2
           /\ part_min' = w.min
           /\ part_max' = w.max
    /\ nrec' = nrec + 1
    /\ seen' = seen \cup {this_time}
    /\ sumAll' = sumAll + this_time
    /\ sum2All' = sum2All + this_time * this_time
    /\ winCount' = winCount + 1
    /\ winSeen' = winSeen \cup {this_time}
    /\ winSum' = winSum + this_time
    /\ winSum2' = winSum2 + this_time * this_time
    /\ flat' = RecordInto(flat, this_time)
    /\ pc' = "flush"
    /\ UNCHANGED <<clock, config, prog, run, outs, evHist>>

\* Line 394.
FlushDue == period # 0 /\ request % period = 0

\* Mutant: part_min is not reset.
ResetWindow_KeepsMin ==
    /\ part_min' = part_min
    /\ part_max' = LLONG_MIN
    /\ part_sum' = 0
    /\ part_sum2' = 0

\* Lines 408-410.
ResetWindow ==
    /\ part_min' = LLONG_MAX
    /\ part_max' = LLONG_MIN
    /\ part_sum' = 0
    /\ part_sum2' = 0

\* Mutant: the run sums are assigned, not added to.
FoldWindow_Assigns ==
    /\ time_sum' = part_sum
    /\ time_sum2' = part_sum2
    /\ time_min' = MinOf(part_min, time_min)
    /\ time_max' = MaxOf(part_max, time_max)

\* Lines 402-407 and 419-424.
FoldWindow ==
    /\ time_sum' = DAdd(time_sum, part_sum)
    /\ time_sum2' = DAdd(time_sum2, part_sum2)
    /\ time_min' = MinOf(part_min, time_min)
    /\ time_max' = MaxOf(part_max, time_max)

\* Lines 394-411.
Flush ==
    /\ pc = "flush"
    /\ IF FlushDue
       THEN /\ FoldWindow
            /\ ResetWindow
            /\ flushedAt' = flushedAt \cup {request}
            /\ winCount' = 0 /\ winSeen' = {} /\ winSum' = 0 /\ winSum2' = 0
       ELSE UNCHANGED <<window, time_min, time_max, time_sum, time_sum2,
                        flushedAt, winHist>>
    /\ pc' = "sleep"
    /\ UNCHANGED <<clock, config, prog, time_total, time_avg, outs, allHist,
                   nfinal, sigInRead, afterSig>>

\* Lines 413-414.
Sleep ==
    /\ pc = "sleep"
    /\ clock' = IF ~exiting THEN clock + interval ELSE clock
    /\ pc' = "while"
    /\ UNCHANGED <<config, prog, window, run, outs, winHist, allHist, evHist>>

\* Line 426: a double divided by an int; 0.0 / 0 is NaN.
Divide(num, den) == [nan |-> (den = 0 /\ num = 0), num |-> num, den |-> den]

\* Lines 417-427.
Final ==
    /\ pc = "final"
    /\ time_total' = clock - time_total
    /\ FoldWindow
    /\ time_avg' = Divide(time_sum', request)
    /\ nfinal' = nfinal + 1
    /\ pc' = "print"
    /\ UNCHANGED <<clock, config, prog, window, outs, winHist, allHist,
                   flushedAt, sigInRead, afterSig>>

\* Lines 429-438.
Report ==
    /\ pc = "print"
    /\ stdout' = IF ~quiet
                 THEN Append(stdout, [requests |-> request, total |-> time_total,
                                      min |-> time_min, avg |-> time_avg,
                                      max |-> time_max])
                 ELSE stdout
    /\ status' = 0
    /\ pc' = "done"
    /\ UNCHANGED <<clock, config, prog, window, run, winHist, allHist, evHist>>

Main ==
    \/ Start \/ WhileCheck \/ Limits \/ Fadvise \/ ReadStart \/ ReadReturn
    \/ Record \/ Flush \/ Sleep \/ Final \/ Report

Next == Main \/ SigExit

Spec == Init /\ [][Next]_vars

\* A run cancelled by SIGINT: no deadline, a paced loop, the summary printed.
CancelInit == Init /\ deadline = 0 /\ interval = 1 /\ ~quiet

\* The process is scheduled and its system calls return.
FairSpec == CancelInit /\ [][Next]_vars /\ WF_vars(Main)

\* ------------------------------------------------------------ properties
SetMin(S) == CHOOSE x \in S : \A y \in S : x <= y
SetMax(S) == CHOOSE x \in S : \A y \in S : x >= y

Finalized == pc \in {"print", "done"}
LoopTop == pc \in {"while", "limits"}
WindowIsIdentity ==
    part_min = LLONG_MAX /\ part_max = LLONG_MIN /\ part_sum = 0 /\ part_sum2 = 0

C2_NoSentinelInZeroSampleSummary ==
    \A i \in 1..Len(stdout) :
        stdout[i].requests = 0 =>
            stdout[i].min # LLONG_MAX /\ stdout[i].max # LLONG_MIN

\* C3: with a count limit C > 0, no deadline, no signal and no fatal error the
\* run ends with exactly C requests and C samples, a window flushed exactly at
\* the positive multiples of the period up to C (none when the period is 0)
\* and the final fold run once; and at every moment the samples recorded are
\* those of all requests but the one in progress.
C3_CountedRun ==
    /\ (pc = "done" /\ count > 0 /\ deadline = 0 /\ ~exiting) =>
          /\ request = count
          /\ nrec = count
          /\ flushedAt = {k \in 1..count : period # 0 /\ k % period = 0}
          /\ Cardinality(flushedAt) = (IF period = 0 THEN 0 ELSE count \div period)
          /\ nfinal = 1
          /\ (~quiet => Len(stdout) = 1)
    /\ (pc \in {"fadvise", "read", "inread", "record"} => nrec = request - 1)
    /\ (pc \in {"while", "limits", "flush", "sleep", "final", "print", "done"} =>
          nrec = request)

\* C3 witness: count = 4, period = 2: windows flushed at requests 2 and 4.
C3_Witness ==
    /\ pc = "done" /\ count = 4 /\ period = 2 /\ deadline = 0 /\ ~exiting
    /\ flushedAt = {2, 4} /\ nrec = 4 /\ ~quiet

\* C4, as claimed: when the period divides the number N of samples, the
\* finalized run sum, sum of squares, min and max are those of one aggregate
\* fed all N samples and never flushed.
C4_WindowedEqualsFlat ==
    (Finalized /\ period # 0 /\ nrec >= 1 /\ nrec % period = 0) =>
        /\ time_sum = flat.sum
        /\ time_sum2 = flat.sum2
        /\ time_min = flat.min
        /\ time_max = flat.max

\* C4, amended: when the period divides N, the finalized run min and max are
\* those of the unflushed aggregate; so is the run sum whenever the exact sum
\* of the latencies is within the range a double holds exactly (2^53, here
\* 2^MantBits), and so is the sum of squares whenever the exact sum of the
\* squares is within that range; beyond it the two may differ by rounding.
C4_WindowedEqualsFlatWhenExact ==
    (Finalized /\ period # 0 /\ nrec >= 1 /\ nrec % period = 0) =>
        /\ time_min = flat.min
        /\ time_max = flat.max
        /\ (sumAll <= Pow2(MantBits) => time_sum = flat.sum)
        /\ (sum2All <= Pow2(MantBits) => time_sum2 = flat.sum2)

\* C4 witness: four samples in two windows of two, squares within the exact
\* range.
C4_Witness ==
    /\ Finalized /\ period = 2 /\ nrec = 4 /\ flushedAt = {2, 4}
    /\ sum2All <= Pow2(MantBits) /\ sum2All >= 5
    /\ time_sum2 = flat.sum2

\* C5: after the final fold of a run of N >= 1 samples, whatever the period,
\* the run sum is the sum of the N latencies, the mean is that sum over N, and
\* the run min and max are the least and the greatest of the N latencies.
C5_RunAggregates ==
    (Finalized /\ nrec >= 1) =>
        /\ time_sum = sumAll
        /\ time_avg = [nan |-> FALSE, num |-> sumAll, den |-> nrec]
        /\ time_min = SetMin(seen)
        /\ time_max = SetMax(seen)

\* C5 witness: three samples with period 2: the third is folded at the end.
C5_Witness ==
    /\ pc = "done" /\ nrec = 3 /\ period = 2 /\ flushedAt = {2}
    /\ Cardinality(seen) >= 2 /\ time_min < time_max

\* C6: when SIGINT arrives while pread() is in flight and the read returns,
\* its latency is recorded, no further request is started, and the run goes on
\* to the final fold and ends with status 0.
C6_DeferredCancellation ==
    /\ [](sigInRead =>
            /\ exiting
            /\ afterSig = 0
            /\ pc \in {"inread", "record", "flush", "sleep", "while", "final",
                       "print", "done", "failed"}
            /\ (pc \in {"flush", "sleep", "while", "final", "print", "done"} =>
                  nrec = request))
    /\ ((sigInRead /\ pc = "record") ~>
            (pc = "done" /\ nfinal = 1 /\ nrec = request /\ status = 0
                /\ (~quiet => Len(stdout) = 1)))

\* C6 witness: the run is over, cancelled during its third read, with a
\* window flushed and one sample still open.
C6_Witness ==
    /\ pc = "done" /\ sigInRead /\ nrec = 3 /\ period = 2 /\ Len(stdout) = 1

\* C7: the deadline does not change once made absolute; with no count limit,
\* a loop-top check that sees now() >= deadline ends the loop without
\* starting a request and one that sees now() < deadline starts the next
\* request; a read that has returned is recorded whatever the clock says.
C7_Deadline ==
    [][ /\ (pc # "start" => deadline' = deadline)
        /\ (pc = "limits" /\ pc' # "limits" /\ count = 0 /\ deadline # 0) =>
              IF clock >= deadline
              THEN pc' = "final" /\ request' = request
              ELSE request' = request + 1 /\ pc' \in {"fadvise", "read"}
        /\ (pc = "record" /\ pc' # "record") =>
              (nrec' = nrec + 1 /\ pc' = "flush")
        /\ (pc = "start" /\ pc' # "start" /\ deadline # 0) =>
              deadline' = deadline + clock
      ]_vars

\* C7 witness: no count limit; a read that started before the deadline and
\* returned after it has been recorded.
C7_Witness ==
    /\ pc = "flush" /\ count = 0 /\ deadline # 0
    /\ clock - this_time < deadline /\ clock > deadline
    /\ nrec = request /\ nrec >= 2

\* C8: a read that returns EINTR does not end the run: its elapsed time
\* becomes this_time and is recorded as any other sample.
C8_InterruptedReadIsASample ==
    /\ [][ (pc = "inread" /\ pc' # "inread" /\ ret_size' < 0 /\ errno' = EINTR) =>
              /\ pc' = "record"
              /\ status' = -1
              /\ this_time' = clock' - this_time
         ]_vars
    /\ []((pc = "flush" /\ ret_size < 0) =>
              /\ errno = EINTR
              /\ status = -1
              /\ nrec = request
              /\ this_time \in winSeen
              /\ part_min <= this_time /\ this_time <= part_max
              /\ part_sum = winSum)

\* C8 witness: SIGINT interrupted the third read; the time it took is in the
\* window.
C8_Witness ==
    /\ pc = "flush" /\ ret_size < 0 /\ errno = EINTR /\ sigInRead
    /\ request = 3 /\ nrec = 3 /\ this_time >= 1 /\ part_max = this_time

\* C9: at the top of the loop the window holds the samples recorded since the
\* last flush (request mod period of them when the period is positive), its
\* min and max are their least and greatest; a window being flushed holds
\* exactly period samples; right after the flush the window is the identity.
C9_WindowInvariant ==
    /\ LoopTop =>
          /\ winCount = (IF period > 0 THEN request % period ELSE request)
          /\ part_sum = winSum
          /\ (winSum2 <= Pow2(MantBits) => part_sum2 = winSum2)
          /\ \A s \in winSeen : part_min <= s /\ s <= part_max
          /\ IF winCount = 0
             THEN WindowIsIdentity /\ winSeen = {}
             ELSE part_min = SetMin(winSeen) /\ part_max = SetMax(winSeen)
    /\ (pc = "flush" /\ period > 0 /\ request % period = 0) =>
          (winCount = period /\ part_min = SetMin(winSeen) /\ part_max = SetMax(winSeen))
    /\ (pc = "sleep" /\ period > 0 /\ request % period = 0) =>
          (WindowIsIdentity /\ winCount = 0)

\* C9 witness: the second window of two samples has just been flushed.
C9_Witness ==
    /\ pc = "sleep" /\ period = 2 /\ request = 4 /\ nrec = 4
    /\ WindowIsIdentity /\ flushedAt = {2, 4} /\ time_min < time_max

\* C10: once the flag is set it stays set, at most one request is started
\* after it, and the request counter of the final summary is the number of
\* samples recorded.
C10_SignalRace ==
    /\ [][exiting => exiting']_vars
    /\ [](/\ afterSig <= 1
          /\ (afterSig = 1 => exiting)
          /\ (Finalized => request = nrec)
          /\ \A i \in 1..Len(stdout) : stdout[i].requests = nrec)

\* C10 witness: one request was started after the flag was set, and the
\* summary is printed.
C10_Witness ==
    /\ pc = "done" /\ afterSig = 1 /\ ~sigInRead /\ Len(stdout) = 1 /\ nrec >= 2

====
